---- MODULE Spec2Model ----
(***************************************************************************)
(* Offline task manager: the local store (lib/indexedDB.ts), the remote    *)
(* gateway (lib/supabase/actions.ts), the sync actions                      *)
(* (app/actions/syncActions.ts), the sync engine (lib/syncManager.ts) and   *)
(* the offline paths of the task components (TaskItem.tsx, TaskForm.tsx).   *)
(*                                                                          *)
(* An absent string field (JavaScript undefined) is Undef, an absent        *)
(* timestamp is 0, JavaScript null is Null.  Timestamps are the integer     *)
(* reading of one wall clock, `now`.  Every await of a storage or network   *)
(* call is a step boundary; the code between two awaits is one step.        *)
(***************************************************************************)
EXTENDS Integers, Sequences, FiniteSets, TLC

\* ---------------------------------------------------------------- bounds
MaxUserOps == 2
MaxInvocations == 2
NumServer == 3

\* local ids are generated by user creates
NumLocal == MaxUserOps

\* ------------------------------------------------------------- constants
Undef == "undefined"
Null == "null"
NoTime == 0

LocalId(i) == "local_" \o ToString(i)
ServerId(i) == "srv-" \o ToString(i)
LocalIds == {LocalId(i) : i \in 1..NumLocal}
ServerIds == {ServerId(i) : i \in 1..NumServer}
\* primary keys of the object store, in the order IndexedDB sorts them
KeySeq == [i \in 1..(NumLocal + NumServer) |->
             IF i <= NumLocal THEN LocalId(i) ELSE ServerId(i - NumLocal)]
Keys == {KeySeq[i] : i \in DOMAIN KeySeq}
KeyRank(k) == CHOOSE i \in DOMAIN KeySeq : KeySeq[i] = k

Titles == {"Buy milk"}
TaskStatuses == {"pending", "in_progress", "completed"}
\* the status a new task is created with: the default of the form
CreateStatuses == {"pending"}
PendingStatuses == {"pending_create", "pending_update", "pending_delete"}
SyncStatuses == PendingStatuses \cup {"synced"}
Callers == {"handleOnline", "handleForceSync", "initializeAndFirstSync"}

\* ------------------------------------------------------------ sequences
RECURSIVE SortByKey(_)
\* a set of records with distinct local_ids as a sequence, ascending by key
SortByKey(S) ==
  IF S = {} THEN <<>>
  ELSE LET m == CHOOSE x \in S : \A y \in S : KeyRank(x.local_id) <= KeyRank(y.local_id)
       IN <<m>> \o SortByKey(S \ {m})

Range(s) == {s[i] : i \in DOMAIN s}

\* ------------------------------------------------------- the local store
\* The object store is a function from the primary keys present to records.
EmptyStore == <<>>

\* variant: the index 'id' is not unique
NoUniqueIndex(st, rec) == TRUE

\* unique index 'id': records without an id are not indexed
UniqueIndexOk(st, rec) ==
  rec.id = Undef \/ \A k \in DOMAIN st : k = rec.local_id \/ st[k].id # rec.id

\* IDBObjectStore.put succeeds unless the unique index is violated
PutOk(st, rec) == UniqueIndexOk(st, rec)

Put(st, rec) ==
  [k \in DOMAIN st \cup {rec.local_id} |-> IF k = rec.local_id THEN rec ELSE st[k]]

Delete(st, key) == [k \in DOMAIN st \ {key} |-> st[k]]

\* index('id').get: the first record, in primary-key order, with that id
HasServerId(st, sid) == sid # Undef /\ \E k \in DOMAIN st : st[k].id = sid

GetFromIndex(st, sid) ==
  LET ks == {k \in DOMAIN st : st[k].id = sid}
  IN st[CHOOSE k \in ks : \A j \in ks : KeyRank(k) <= KeyRank(j)]

\* variant: every record marked deleted is filtered out
NotDeleted(task) == ~task.is_deleted

\* the filter of line 67
NotTombstone(task) == ~(task.is_deleted /\ task.sync_status = "synced")

\* getAllTasks: everything but reconciled tombstones
getAllTasks(st) ==
  {st[k] : k \in {j \in DOMAIN st : NotTombstone(st[j])}}

\* index('sync_status').getAll(status): ascending by primary key
ByStatus(st, status) ==
  SortByKey({st[k] : k \in {j \in DOMAIN st : st[j].sync_status = status}})

\* variant: the records pending deletion are left out
PendingWithoutDeletes(st) ==
  ByStatus(st, "pending_create") \o ByStatus(st, "pending_update")

getPendingChanges(st) ==
  ByStatus(st, "pending_create") \o ByStatus(st, "pending_update")
    \o ByStatus(st, "pending_delete")

\* variant: no consolidation
NoConsolidate(st, t) == t

\* saveTask, lines 103-109: reuse the local_id of the record that already
\* carries this server id
SaveConsolidate(st, t) ==
  IF t.id # Undef /\ HasServerId(st, t.id) /\ GetFromIndex(st, t.id).local_id # t.local_id
  THEN [t EXCEPT !.local_id = GetFromIndex(st, t.id).local_id]
  ELSE t

\* variant: a task without id keeps the sync_status it carries
SaveStampAsCarried(t, time) ==
  LET b == [t EXCEPT !.updated_at = time]
      c == IF b.created_at = NoTime THEN [b EXCEPT !.created_at = b.updated_at] ELSE b
  IN IF c.sync_status = Undef THEN [c EXCEPT !.sync_status = "synced"] ELSE c

\* saveTask, lines 111-131: sync_status and timestamps
SaveStamp(t, time) ==
  LET a == IF t.id = Undef /\ t.sync_status # "pending_create"
           THEN [t EXCEPT !.sync_status = "pending_create",
                          !.created_at = IF t.created_at = NoTime THEN time ELSE t.created_at]
           ELSE t
      b == [a EXCEPT !.updated_at = time]
      c == IF b.created_at = NoTime THEN [b EXCEPT !.created_at = b.updated_at] ELSE b
  IN IF c.sync_status = Undef THEN [c EXCEPT !.sync_status = "synced"] ELSE c

\* variant: updated_at is always refreshed, as saveTask does
RefreshedUpdatedAt(task, time) == time

\* bulkSaveTasks, lines 165-167: updated_at is set only when it is missing
BulkUpdatedAt(task, time) == IF task.updated_at = NoTime THEN time ELSE task.updated_at

\* variant: a record with local changes still pending is not overwritten
BulkKeepPending(st, task, time) ==
  IF HasServerId(st, task.id) /\ GetFromIndex(st, task.id).sync_status \in PendingStatuses
  THEN GetFromIndex(st, task.id)
  ELSE IF task.local_id = Undef THEN [task EXCEPT !.local_id = task.id] ELSE task

\* bulkSaveTasks, the body of the loop for one task
BulkPrepare(st, task, time) ==
  LET a == IF task.local_id = Undef THEN [task EXCEPT !.local_id = task.id] ELSE task
      b == IF a.id # Undef /\ HasServerId(st, a.id) /\ GetFromIndex(st, a.id).local_id # a.local_id
           THEN [a EXCEPT !.local_id = GetFromIndex(st, a.id).local_id]
           ELSE a
      c == [b EXCEPT !.updated_at = BulkUpdatedAt(b, time)]
      d == IF c.created_at = NoTime THEN [c EXCEPT !.created_at = c.updated_at] ELSE c
  IN IF d.sync_status = Undef THEN [d EXCEPT !.sync_status = "synced"] ELSE d

RECURSIVE BulkOk(_, _, _)
\* every put of the batch succeeds
BulkOk(st, tasks, time) ==
  IF tasks = <<>> THEN TRUE
  ELSE LET rec == BulkPrepare(st, Head(tasks), time)
       IN PutOk(st, rec) /\ BulkOk(Put(st, rec), Tail(tasks), time)

RECURSIVE bulkSaveTasks(_, _, _)
\* the store after the transaction of bulkSaveTasks commits
bulkSaveTasks(st, tasks, time) ==
  IF tasks = <<>> THEN st
  ELSE bulkSaveTasks(Put(st, BulkPrepare(st, Head(tasks), time)), Tail(tasks), time)

\* variant: the id the server assigned is not taken over
KeepLocalServerId(s, l) == l.id

\* updateTaskAfterSync, lines 216-217: the spread of serverTaskData over the
\* local record decides the id
MergedServerId(s, l) == IF s.id # Undef THEN s.id ELSE l.id

\* variant: the record keeps the sync_status it had
KeepLocalSyncStatus(s, l) == l.sync_status

\* updateTaskAfterSync, line 218: sync_status: 'synced'
MergedSyncStatus(s, l) == "synced"

\* variant: created_at comes from the spread alone
OverlaidCreatedAt(s, has, l, updated) ==
  IF s.created_at # NoTime THEN s.created_at
  ELSE IF has THEN l.created_at ELSE NoTime

\* updateTaskAfterSync, lines 216-228: created_at of the spread, else the
\* local record's, else the merged updated_at
MergedCreatedAt(s, has, l, updated) ==
  IF s.created_at # NoTime THEN s.created_at
  ELSE IF has /\ l.created_at # NoTime THEN l.created_at
  ELSE updated

\* updateTaskAfterSync, lines 212-231: local record overlaid by the server's
MergeWithServer(st, originalLocalId, s, time) ==
  LET has == originalLocalId \in DOMAIN st
      l == IF has THEN st[originalLocalId] ELSE s
  IN [local_id |-> originalLocalId,
      id |-> MergedServerId(s, l),
      title |-> IF s.title # Undef THEN s.title ELSE l.title,
      description |-> IF s.description # Undef THEN s.description ELSE l.description,
      assigned_to |-> IF s.assigned_to # Undef THEN s.assigned_to ELSE l.assigned_to,
      status |-> IF s.status # Undef THEN s.status ELSE l.status,
      is_deleted |-> s.is_deleted,
      created_at |-> MergedCreatedAt(s, has, l,
                       IF s.updated_at # NoTime THEN s.updated_at ELSE time),
      updated_at |-> IF s.updated_at # NoTime THEN s.updated_at ELSE time,
      sync_status |-> MergedSyncStatus(s, l)]

\* updateTaskAfterSync, lines 239-254: the server id is already stored under
\* another local_id
SyncConflict(st, originalLocalId, s) ==
  s.id # Undef /\ HasServerId(st, s.id)
    /\ GetFromIndex(st, s.id).local_id # originalLocalId

FinalLocalId(st, originalLocalId, s) ==
  IF SyncConflict(st, originalLocalId, s)
  THEN GetFromIndex(st, s.id).local_id ELSE originalLocalId

SyncRecord(st, originalLocalId, s, time) ==
  [MergeWithServer(st, originalLocalId, s, time)
     EXCEPT !.local_id = FinalLocalId(st, originalLocalId, s)]

updateTaskAfterSyncOk(st, originalLocalId, s, time) ==
  PutOk(st, SyncRecord(st, originalLocalId, s, time))

\* variant: the redundant record is never deleted
KeepOriginal(st, originalLocalId) == st

\* updateTaskAfterSync, lines 263-266: store.delete(oldLocalIdToDelete)
DropOriginal(st, originalLocalId) == Delete(st, originalLocalId)

\* variant: the transaction commits without its put
updateTaskAfterSyncWithoutPut(st, originalLocalId, s, time) == st

\* the store after the transaction of updateTaskAfterSync commits
updateTaskAfterSync(st, originalLocalId, s, time) ==
  LET put == Put(st, SyncRecord(st, originalLocalId, s, time))
  IN IF SyncConflict(st, originalLocalId, s) THEN DropOriginal(put, originalLocalId) ELSE put

\* updateLocalTaskStatus, lines 281-289: task is the record line 278 read
StatusRecord(task, local_id_param, sync_status, serverId, serverUpdatedAt, time) ==
  [task EXCEPT
     !.local_id = local_id_param,
     !.sync_status = sync_status,
     !.updated_at = IF serverUpdatedAt # NoTime THEN serverUpdatedAt ELSE time,
     !.id = IF serverId # Undef THEN serverId ELSE @]


\* ---------------------------------------------------- the remote gateway
\* A row of the remote table as the Task the gateway returns
AsTask(row) ==
  [local_id |-> Undef, id |-> row.id, title |-> row.title,
   description |-> row.description, assigned_to |-> row.assigned_to,
   status |-> row.status, is_deleted |-> row.is_deleted,
   created_at |-> row.created_at, updated_at |-> row.updated_at,
   sync_status |-> "synced"]

\* onlineDB.createTask: the inserted row
CreatedRow(newId, payload, time) ==
  [id |-> newId, title |-> payload.title, description |-> payload.description,
   assigned_to |-> payload.assigned_to,
   status |-> IF payload.status = Undef THEN "pending" ELSE payload.status,
   is_deleted |-> FALSE, created_at |-> time, updated_at |-> time]

\* onlineDB.updateTask: the row overlaid by the fields the payload carries
UpdatedRow(row, payload, time) ==
  [id |-> row.id,
   title |-> IF "title" \in DOMAIN payload /\ payload.title # Undef
             THEN payload.title ELSE row.title,
   description |-> IF "description" \in DOMAIN payload /\ payload.description # Undef
                   THEN payload.description ELSE row.description,
   assigned_to |-> IF "assigned_to" \in DOMAIN payload /\ payload.assigned_to # Undef
                   THEN payload.assigned_to ELSE row.assigned_to,
   status |-> IF "status" \in DOMAIN payload /\ payload.status # Undef
              THEN payload.status ELSE row.status,
   is_deleted |-> IF "is_deleted" \in DOMAIN payload THEN payload.is_deleted
                  ELSE row.is_deleted,
   created_at |-> row.created_at, updated_at |-> time]

\* variant: the row is touched but not marked as deleted
TouchedRow(row, time) == [row EXCEPT !.updated_at = time]

\* onlineDB.softDeleteTask
SoftDeletedRow(row, time) == [row EXCEPT !.is_deleted = TRUE, !.updated_at = time]

RECURSIVE SortRows(_)
\* order('updated_at', ascending); rows with equal updated_at by id
SortRows(S) ==
  IF S = {} THEN <<>>
  ELSE LET m == CHOOSE x \in S : \A y \in S :
                  \/ x.updated_at < y.updated_at
                  \/ x.updated_at = y.updated_at /\ KeyRank(x.id) <= KeyRank(y.id)
       IN <<m>> \o SortRows(S \ {m})

\* the filter of getTasksModifiedSince: gt('updated_at', timestamp)
ModifiedSince(row, timestamp) == row.updated_at > timestamp

\* onlineDB.getTasksModifiedSince
getTasksModifiedSince(rem, timestamp) ==
  LET rows == IF timestamp # NoTime
              THEN {rem[i] : i \in {j \in DOMAIN rem : ModifiedSince(rem[j], timestamp)}}
              ELSE {rem[i] : i \in DOMAIN rem}
      sorted == SortRows(rows)
  IN [i \in DOMAIN sorted |-> AsTask(sorted[i])]

\* ------------------------------------------------------ the sync actions
Nullish(v) == IF v = Undef THEN Null ELSE v

\* variant: the whole task is sent
WholeTaskPayload(task) == task

\* syncPendingTaskWithServer, the payload of createTask
PayloadForCreate(task) ==
  [title |-> Nullish(task.title), description |-> Nullish(task.description),
   assigned_to |-> Nullish(task.assigned_to), status |-> task.status]

\* syncPendingTaskWithServer, the payload of updateTask
PayloadForUpdate(task) ==
  [title |-> Nullish(task.title), description |-> Nullish(task.description),
   assigned_to |-> Nullish(task.assigned_to), status |-> task.status,
   is_deleted |-> task.is_deleted]

\* syncPendingTaskWithServer: the gateway operation chosen for a task;
\* op "none" is the 'Invalid sync_status or missing ID' branch
GatewayCall(task) ==
  IF task.sync_status = "pending_create" /\ task.id = Undef
  THEN [op |-> "createTask", id |-> Undef, payload |-> PayloadForCreate(task),
        local_id |-> task.local_id]
  ELSE IF task.sync_status = "pending_update" /\ task.id # Undef
  THEN [op |-> "updateTask", id |-> task.id, payload |-> PayloadForUpdate(task),
        local_id |-> task.local_id]
  ELSE IF task.sync_status = "pending_delete" /\ task.id # Undef
  THEN [op |-> "softDeleteTask", id |-> task.id, payload |-> <<>>,
        local_id |-> task.local_id]
  ELSE [op |-> "none", id |-> task.id, payload |-> <<>>, local_id |-> task.local_id]

\* ----------------------------------------------------------------- state
VARIABLES
  store,          \* the IndexedDB object store 'tasks'
  remote,         \* the remote table 'tasks', by server id
  view,           \* the tasks the presentation layer last read (useTasks)
  saving,         \* the store calls between their read and their put
  now,            \* the wall clock
  online,         \* navigator.onLine
  isSyncing,      \* syncManager.isSyncing
  lastSync,       \* localStorage[LAST_SYNC_KEY]; NoTime when unset
  nextLocal,      \* number of the next locally generated local_id
  nextServer,     \* number of the next server-assigned id
  userOps,        \* operations requested on the store so far
  invocations,    \* invocations of synchronize so far
  initPc,         \* where initializeAndFirstSync stands
  initForce,      \* its localTasksCount === 0
  initPopulated,  \* its performedInitialPopulation
  pc,             \* where each running invocation of synchronize stands
  caller,         \* who invoked it
  force,          \* its forceFullSync
  pendingRead,    \* the pendingTasks it read
  pendingTasks,   \* the part of pendingTasks its loop has not finished
  syncedTask,     \* the task the gateway returned for the current record
  lastSyncArg,    \* the lastSync it hands to fetchServerUpdates
  serverUpdates,  \* the tasks fetchServerUpdates returned
  fetchError,     \* fetchServerUpdates returned an error
  gwLog,          \* history: the gateway operations it has issued, with outcome
  quiet,          \* history: no local mutation by others since it started
  result          \* what the last invocation of synchronize returned

uiVars == <<saving, nextLocal, userOps>>
envVars == <<remote, now, online, nextServer, invocations>>
initVars == <<initPc, initForce, initPopulated>>
passVars == <<pc, caller, force, pendingRead, pendingTasks, syncedTask,
              lastSyncArg, serverUpdates, fetchError, gwLog, quiet>>
vars == <<store, remote, view, saving, now, online, isSyncing, lastSync,
          nextLocal, nextServer, userOps, invocations, initPc, initForce,
          initPopulated, pc, caller, force, pendingRead, pendingTasks,
          syncedTask, lastSyncArg, serverUpdates, fetchError, gwLog, quiet,
          result>>

\* invocations of synchronize that can be running at once
Slots == {1, 2}

NoTask == <<>>
NoResult == [kind |-> "pending", success |-> FALSE, error |-> Undef]
Returned(success, error) == [kind |-> "returned", success |-> success, error |-> error]
Thrown(error) == [kind |-> "thrown", success |-> FALSE, error |-> error]

\* the remote table when the application starts: empty, or holding a task
\* another client created
InitialRemotes ==
  {<<>>} \cup
  {[i \in {ServerId(1)} |->
      CreatedRow(ServerId(1), [title |-> title, description |-> Null,
                               assigned_to |-> Null, status |-> status], 1)] :
     title \in Titles, status \in CreateStatuses}

\* what a page load starts from, whatever earlier sessions left behind
InitSession ==
  /\ view = {}
  /\ saving = <<>>
  /\ online = TRUE
  /\ isSyncing = FALSE
  /\ nextServer = Cardinality(DOMAIN remote) + 1
  /\ userOps = 0
  /\ invocations = 0
  /\ initPc = "start"
  /\ initForce = FALSE
  /\ initPopulated = FALSE
  /\ pc = [p \in Slots |-> "idle"]
  /\ caller = [p \in Slots |-> Undef]
  /\ force = [p \in Slots |-> FALSE]
  /\ pendingRead = [p \in Slots |-> <<>>]
  /\ pendingTasks = [p \in Slots |-> <<>>]
  /\ syncedTask = [p \in Slots |-> NoTask]
  /\ lastSyncArg = [p \in Slots |-> NoTime]
  /\ serverUpdates = [p \in Slots |-> <<>>]
  /\ fetchError = [p \in Slots |-> FALSE]
  /\ gwLog = [p \in Slots |-> <<>>]
  /\ quiet = [p \in Slots |-> FALSE]
  /\ result = NoResult

\* the first session: nothing stored, no watermark
Init ==
  /\ store = EmptyStore
  /\ nextLocal = 1
  /\ remote \in InitialRemotes
  /\ now = 1
  /\ lastSync = NoTime
  /\ InitSession

\* ------------------------------------------- change notification
\* dispatchTasksUpdatedEvent after the caller got its result: handleOnline
\* and handleForceSync always dispatch, initializeAndFirstSync when it
\* populated the store or the browser is online
Notifies(who, isOnline) ==
  who # "initializeAndFirstSync" \/ initPopulated \/ isOnline

\* the listener of useTasks re-reads the store
Notify(cond, st) == view' = IF cond THEN getAllTasks(st) ELSE view

\* ------------------------------------------------------- syncManager
\* variant: no connectivity check
NeverOffline(isOnline) == FALSE

\* synchronize, lines 13-16
OfflineGuard(isOnline) == ~isOnline

\* variant: no busy check
NeverBusy(syncing) == FALSE

\* synchronize, lines 17-20
BusyGuard(syncing) == syncing

\* variant: the error of the pass propagates
Rethrow(error) == Thrown(error)

\* synchronize, lines 74-78: the catch of the whole pass
CatchResult(error) == Returned(FALSE, error)

\* variant: the catch does not release the flag
FlagKeptAfterCatch == TRUE

\* synchronize, line 76
FlagAfterCatch == FALSE

\* variant: the stored watermark is used even when a full sync is forced
StoredWatermark(forceFullSync, stored) == stored

\* synchronize, line 54
Watermark(forceFullSync, stored) == IF forceFullSync THEN NoTime ELSE stored

\* the invocation returns to its caller, which notifies
LeaveSlot(p) ==
  /\ pc' = [pc EXCEPT ![p] = "idle"]
  /\ caller' = [caller EXCEPT ![p] = Undef]
  /\ force' = [force EXCEPT ![p] = FALSE]
  /\ pendingRead' = [pendingRead EXCEPT ![p] = <<>>]
  /\ pendingTasks' = [pendingTasks EXCEPT ![p] = <<>>]
  /\ syncedTask' = [syncedTask EXCEPT ![p] = NoTask]
  /\ lastSyncArg' = [lastSyncArg EXCEPT ![p] = NoTime]
  /\ serverUpdates' = [serverUpdates EXCEPT ![p] = <<>>]
  /\ fetchError' = [fetchError EXCEPT ![p] = FALSE]
  /\ gwLog' = [gwLog EXCEPT ![p] = <<>>]
  /\ quiet' = [quiet EXCEPT ![p] = FALSE]

\* the catch of synchronize, lines 74-78
CatchAll(p, error) ==
  /\ isSyncing' = FlagAfterCatch
  /\ result' = CatchResult(error)
  /\ LeaveSlot(p)

\* synchronize(forceFullSync) up to its first await, lines 13-28
EnterBody(who, forceFullSync, isOnline) ==
  IF OfflineGuard(isOnline)
  THEN /\ result' = Returned(FALSE, "Offline")
       /\ Notify(Notifies(who, isOnline), store)
       /\ UNCHANGED <<isSyncing, passVars>>
  ELSE IF BusyGuard(isSyncing)
  THEN /\ result' = Returned(FALSE, "Sync in progress")
       /\ Notify(Notifies(who, isOnline), store)
       /\ UNCHANGED <<isSyncing, passVars>>
  ELSE /\ \E p \in Slots :
            /\ pc[p] = "idle"
            /\ \A q \in Slots : pc[q] = "idle" => p <= q
            /\ pc' = [pc EXCEPT ![p] = "getPending"]
            /\ caller' = [caller EXCEPT ![p] = who]
            /\ force' = [force EXCEPT ![p] = forceFullSync]
            /\ quiet' = [quiet EXCEPT ![p] = (saving = <<>>)]
       /\ isSyncing' = TRUE
       /\ result' = NoResult
       /\ UNCHANGED <<view, pendingRead, pendingTasks, syncedTask, lastSyncArg,
                      serverUpdates, fetchError, gwLog>>

\* an invocation of synchronize
Enter(who, forceFullSync, isOnline) ==
  /\ invocations < MaxInvocations
  /\ invocations' = invocations + 1
  /\ EnterBody(who, forceFullSync, isOnline)

\* the effect of SyncManagerInitializer has run: the listeners are registered
Mounted == initPc # "start"

\* handleOnline: the 'online' event
HandleOnline ==
  /\ ~online
  /\ Mounted
  /\ online' = TRUE
  /\ Enter("handleOnline", FALSE, TRUE)
  /\ UNCHANGED <<store, uiVars, remote, now, nextServer, lastSync, initVars>>

\* handleOffline: the 'offline' event
HandleOffline ==
  /\ online
  /\ online' = FALSE
  /\ UNCHANGED <<store, view, uiVars, remote, now, nextServer,
                 invocations, isSyncing, lastSync, initVars, passVars, result>>

\* TaskList.handleForceSync
HandleForceSync ==
  /\ online
  /\ Mounted
  /\ Enter("handleForceSync", TRUE, online)
  /\ UNCHANGED <<store, uiVars, remote, now, online, nextServer,
                 lastSync, initVars>>

\* variant: the fetch starts while one task is left
LoopDoneEarly(rest) == Len(rest) <= 1

\* the for loop of line 32 has no task left
LoopDone(rest) == rest = <<>>

\* variant: a failed push ends the loop
AbortBatch(rest) == <<>>

\* lines 40-49: after a failed push the loop goes on with the next task
AfterFailure(rest) == rest

\* the loop of the push phase moves on, lines 32, 50-54
NextRecord(p, rest) ==
  /\ pendingTasks' = [pendingTasks EXCEPT ![p] = rest]
  /\ syncedTask' = [syncedTask EXCEPT ![p] = NoTask]
  /\ IF LoopDone(rest)
     THEN /\ pc' = [pc EXCEPT ![p] = "fetch"]
          /\ lastSyncArg' = [lastSyncArg EXCEPT ![p] = Watermark(force[p], lastSync)]
     ELSE /\ pc' = [pc EXCEPT ![p] = "dispatch"]
          /\ UNCHANGED lastSyncArg

\* await offlineDB.getPendingChanges(), line 28
GetPending(p) ==
  /\ pc[p] = "getPending"
  /\ \/ /\ pendingRead' = [pendingRead EXCEPT ![p] = getPendingChanges(store)]
        /\ NextRecord(p, getPendingChanges(store))
        /\ UNCHANGED <<view, isSyncing, result, caller, force, serverUpdates,
                       fetchError, gwLog, quiet>>
     \/ /\ CatchAll(p, "StorageFailure")
        /\ Notify(Notifies(caller[p], online), store)
  /\ UNCHANGED <<store, uiVars, envVars, lastSync, initVars>>

\* an entry of gwLog
Logged(task, ok, serverId) ==
  [call |-> GatewayCall(task), task |-> task, ok |-> ok, serverId |-> serverId,
   reconciled |-> FALSE]

\* variant: a create whose fields equal those of a row returns that row's id
RowIdByFields(rem, payload, fresh) ==
  IF \E i \in DOMAIN rem : rem[i].title = payload.title /\ rem[i].status = payload.status
  THEN CHOOSE i \in DOMAIN rem :
         rem[i].title = payload.title /\ rem[i].status = payload.status
  ELSE fresh

\* onlineDB.createTask: insert, the table assigns the id of the new row
NewRowId(rem, payload, fresh) == fresh

\* await syncPendingTaskWithServer(task), line 34
Dispatch(p) ==
  /\ pc[p] = "dispatch"
  /\ LET task == Head(pendingTasks[p])
         call == GatewayCall(task)
     IN \/ /\ call.op = "none"
           /\ NextRecord(p, AfterFailure(Tail(pendingTasks[p])))
           /\ UNCHANGED <<remote, nextServer, gwLog>>
        \/ /\ call.op = "createTask"
           /\ nextServer <= NumServer
           /\ LET row == CreatedRow(NewRowId(remote, call.payload, ServerId(nextServer)),
                                    call.payload, now)
              IN /\ remote' = [i \in DOMAIN remote \cup {row.id} |->
                                 IF i = row.id THEN row ELSE remote[i]]
                 /\ syncedTask' = [syncedTask EXCEPT ![p] = AsTask(row)]
                 /\ gwLog' = [gwLog EXCEPT ![p] = Append(@, Logged(task, TRUE, row.id))]
           /\ nextServer' = nextServer + 1
           /\ pc' = [pc EXCEPT ![p] = "reconcile"]
           /\ UNCHANGED <<pendingTasks, lastSyncArg>>
        \/ /\ call.op \in {"updateTask", "softDeleteTask"}
           /\ call.id \in DOMAIN remote
           /\ LET row == IF call.op = "updateTask"
                         THEN UpdatedRow(remote[call.id], call.payload, now)
                         ELSE SoftDeletedRow(remote[call.id], now)
              IN /\ remote' = [remote EXCEPT ![call.id] = row]
                 /\ syncedTask' = [syncedTask EXCEPT ![p] = AsTask(row)]
                 /\ gwLog' = [gwLog EXCEPT ![p] = Append(@, Logged(task, TRUE, row.id))]
           /\ pc' = [pc EXCEPT ![p] = "reconcile"]
           /\ UNCHANGED <<nextServer, pendingTasks, lastSyncArg>>
        \/ /\ call.op # "none"
           /\ gwLog' = [gwLog EXCEPT ![p] = Append(@, Logged(task, FALSE, Undef))]
           /\ NextRecord(p, AfterFailure(Tail(pendingTasks[p])))
           /\ UNCHANGED <<remote, nextServer>>
  /\ UNCHANGED <<store, view, uiVars, now, online, invocations, isSyncing,
                 lastSync, initVars, caller, force, pendingRead, serverUpdates,
                 fetchError, quiet, result>>

\* await offlineDB.updateTaskAfterSync(task.local_id, syncedTask), line 38
Reconcile(p) ==
  /\ pc[p] = "reconcile"
  /\ LET task == Head(pendingTasks[p])
     IN \/ /\ updateTaskAfterSyncOk(store, task.local_id, syncedTask[p], now)
           /\ store' = updateTaskAfterSync(store, task.local_id, syncedTask[p], now)
           /\ gwLog' = [gwLog EXCEPT ![p][Len(gwLog[p])].reconciled = TRUE]
           /\ NextRecord(p, Tail(pendingTasks[p]))
        \/ /\ NextRecord(p, AfterFailure(Tail(pendingTasks[p])))
           /\ UNCHANGED <<store, gwLog>>
  /\ UNCHANGED <<view, uiVars, envVars, isSyncing, lastSync, initVars, caller,
                 force, pendingRead, serverUpdates, fetchError, quiet, result>>

\* fetchServerUpdates(lastSync) runs on the server, line 56
Fetch(p) ==
  /\ pc[p] = "fetch"
  /\ \/ /\ fetchError' = [fetchError EXCEPT ![p] = TRUE]
        /\ UNCHANGED serverUpdates
     \/ /\ serverUpdates' = [serverUpdates EXCEPT ![p] =
                               getTasksModifiedSince(remote, lastSyncArg[p])]
        /\ UNCHANGED fetchError
  /\ pc' = [pc EXCEPT ![p] = "merge"]
  /\ UNCHANGED <<store, view, uiVars, envVars, isSyncing, lastSync, initVars,
                 caller, force, pendingRead, pendingTasks, syncedTask,
                 lastSyncArg, gwLog, quiet, result>>

\* variant: a fetch that returned an error leaves the watermark alone
WatermarkUnlessFetchFailed(fetchFailed, stored, time) ==
  IF fetchFailed THEN stored ELSE time

\* synchronize, line 70: setLastSyncTimestamp(new Date().toISOString())
WatermarkAfterPass(fetchFailed, stored, time) == time

\* lines 58-70: the fetched tasks are merged and the watermark is written
Merge(p) ==
  /\ pc[p] = "merge"
  /\ \/ /\ serverUpdates[p] # <<>>
        /\ CatchAll(p, "StorageFailure")
        /\ Notify(Notifies(caller[p], online), store)
        /\ UNCHANGED <<store, lastSync>>
     \/ /\ IF serverUpdates[p] # <<>>
           THEN /\ BulkOk(store, serverUpdates[p], now)
                /\ store' = bulkSaveTasks(store, serverUpdates[p], now)
           ELSE UNCHANGED store
        /\ \/ /\ lastSync' = WatermarkAfterPass(fetchError[p], lastSync, now)
              /\ pc' = [pc EXCEPT ![p] = "finish"]
              /\ UNCHANGED <<view, isSyncing, result, caller, force, pendingRead,
                             pendingTasks, syncedTask, lastSyncArg, serverUpdates,
                             fetchError, gwLog, quiet>>
           \/ /\ CatchAll(p, "StorageFailure")
              /\ Notify(Notifies(caller[p], online), store')
              /\ UNCHANGED lastSync
  /\ UNCHANGED <<uiVars, envVars, initVars>>

\* variant: the flag is not released at the end of the try block
FlagKeptAfterPass == TRUE

\* synchronize, line 71: this.isSyncing = false
FlagAfterPass == FALSE

\* lines 71-73
Finish(p) ==
  /\ pc[p] = "finish"
  /\ isSyncing' = FlagAfterPass
  /\ result' = Returned(TRUE, Undef)
  /\ LeaveSlot(p)
  /\ Notify(Notifies(caller[p], online), store)
  /\ UNCHANGED <<store, uiVars, envVars, lastSync, initVars>>

\* ------------------------------------------- initializeAndFirstSync
\* onlineDB.getAllTasks, read for the page: the rows not deleted
InitialServerTasks(rem) ==
  LET sorted == SortRows({rem[i] : i \in {j \in DOMAIN rem : ~rem[j].is_deleted}})
  IN [i \in DOMAIN sorted |-> [AsTask(sorted[i]) EXCEPT !.local_id = sorted[i].id]]

\* lines 106-126: the count is read; without initial population the first
\* synchronize is invoked in the same step
InitRead ==
  /\ initPc = "start"
  /\ \/ /\ online
        /\ Cardinality(getAllTasks(store)) = 0
        /\ InitialServerTasks(remote) # <<>>
        /\ initForce' = TRUE
        /\ initPc' = "populate"
        /\ UNCHANGED <<view, invocations, isSyncing, passVars, result>>
     \/ /\ online
        /\ ~(Cardinality(getAllTasks(store)) = 0 /\ InitialServerTasks(remote) # <<>>)
        /\ initForce' = (Cardinality(getAllTasks(store)) = 0)
        /\ initPc' = "done"
        /\ Enter("initializeAndFirstSync", Cardinality(getAllTasks(store)) = 0, online)
     \/ /\ ~online
        /\ initPc' = "done"
        /\ UNCHANGED <<view, invocations, isSyncing, initForce, passVars, result>>
  /\ UNCHANGED <<store, uiVars, remote, now, online, nextServer, lastSync,
                 initPopulated>>

\* line 118: await offlineDB.bulkSaveTasks(tasksToSave)
InitPopulate ==
  /\ initPc = "populate"
  /\ \/ /\ BulkOk(store, InitialServerTasks(remote), now)
        /\ store' = bulkSaveTasks(store, InitialServerTasks(remote), now)
        /\ initPc' = "sync"
        /\ initPopulated' = TRUE
        /\ quiet' = [p \in Slots |-> FALSE]
        /\ UNCHANGED view
     \/ /\ initPc' = "done"
        /\ Notify(online, store)
        /\ UNCHANGED <<store, initPopulated, quiet>>
  /\ UNCHANGED <<uiVars, envVars, isSyncing, lastSync, initForce, pc, caller,
                 force, pendingRead, pendingTasks, syncedTask, lastSyncArg,
                 serverUpdates, fetchError, gwLog, result>>

\* line 126, after the initial population:
\* await syncManager.synchronize(localTasksCount === 0)
InitSync ==
  /\ initPc = "sync"
  /\ Enter("initializeAndFirstSync", initForce, online)
  /\ initPc' = "done"
  /\ UNCHANGED <<store, uiVars, remote, now, online, nextServer,
                 lastSync, initForce, initPopulated>>

\* ------------------------------------------------- task components
\* the tasks TaskList renders a TaskItem for
Visible == {t \in view : ~t.is_deleted}

\* a saveTask that has done its index lookup, line 104, and not yet its put
SaveCall(taskToSave) == [op |-> "saveTask", task |-> taskToSave]

\* saveTask, line 135: the local_id handed back to the caller
saveTaskReturn(taskToSave) == taskToSave.local_id

\* saveTask up to its put: a task without server id is put at once, one with
\* a server id waits for the index lookup
BeginSave(t) ==
  IF t.id = Undef
  THEN /\ store' = Put(store, SaveStamp(t, now))
       /\ Notify(TRUE, store')
       /\ UNCHANGED saving
  ELSE /\ saving' = <<SaveCall(SaveConsolidate(store, t))>>
       /\ UNCHANGED <<store, view>>

\* saveTask, lines 111-135, for a task with a server id
CompleteSave ==
  /\ saving # <<>>
  /\ \/ /\ PutOk(store, SaveStamp(saving[1].task, now))
        /\ store' = Put(store, SaveStamp(saving[1].task, now))
        /\ Notify(TRUE, store')
     \/ UNCHANGED <<store, view>>
  /\ saving' = <<>>
  /\ quiet' = [p \in Slots |-> FALSE]
  /\ UNCHANGED <<nextLocal, userOps, envVars, isSyncing, lastSync, initVars,
                 pc, caller, force, pendingRead,
                 pendingTasks, syncedTask, lastSyncArg, serverUpdates, fetchError,
                 gwLog, result>>

\* TaskForm.saveOffline
SaveOffline(title, status) ==
  /\ saving = <<>>
  /\ Mounted
  /\ userOps < MaxUserOps
  /\ BeginSave([local_id |-> LocalId(nextLocal), id |-> Undef, title |-> title,
                description |-> Null, assigned_to |-> Null, status |-> status,
                is_deleted |-> FALSE, created_at |-> now, updated_at |-> now,
                sync_status |-> "pending_create"])
  /\ nextLocal' = nextLocal + 1
  /\ userOps' = userOps + 1
  /\ quiet' = [p \in Slots |-> FALSE]
  /\ UNCHANGED <<envVars, isSyncing, lastSync, initVars, pc, caller, force, pendingRead,
                 pendingTasks, syncedTask, lastSyncArg, serverUpdates, fetchError,
                 gwLog, result>>

\* variant: every edit is stored as pending_create
EditAsPendingCreate(task) == "pending_create"

\* saveUpdateOffline, line 85: the sync_status by the id of the task held
EditSyncStatus(task) == IF task.id # Undef THEN "pending_update" ELSE "pending_create"

\* TaskItem.saveUpdateOffline, from handleStatusChange
SaveUpdateOffline(task, newStatus) ==
  /\ saving = <<>>
  /\ Mounted
  /\ userOps < MaxUserOps
  /\ task \in Visible
  /\ newStatus # task.status
  /\ BeginSave([task EXCEPT !.status = newStatus, !.updated_at = now,
                            !.sync_status = EditSyncStatus(task)])
  /\ userOps' = userOps + 1
  /\ quiet' = [p \in Slots |-> FALSE]
  /\ UNCHANGED <<nextLocal, envVars, isSyncing, lastSync, initVars, pc, caller, force, pendingRead,
                 pendingTasks, syncedTask, lastSyncArg, serverUpdates, fetchError,
                 gwLog, result>>

\* TaskItem.markForOfflineDelete
MarkForOfflineDelete(task) ==
  /\ saving = <<>>
  /\ Mounted
  /\ userOps < MaxUserOps
  /\ task \in Visible
  /\ IF task.id # Undef
     THEN BeginSave([task EXCEPT !.is_deleted = TRUE, !.sync_status = "pending_delete",
                                 !.updated_at = now])
     ELSE /\ store' = Delete(store, task.local_id)
          /\ Notify(TRUE, store')
          /\ UNCHANGED saving
  /\ userOps' = userOps + 1
  /\ quiet' = [p \in Slots |-> FALSE]
  /\ UNCHANGED <<nextLocal, envVars, isSyncing, lastSync, initVars, pc, caller, force, pendingRead,
                 pendingTasks, syncedTask, lastSyncArg, serverUpdates, fetchError,
                 gwLog, result>>

Next ==
  \/ HandleOnline
  \/ HandleOffline
  \/ HandleForceSync
  \/ InitRead
  \/ InitPopulate
  \/ InitSync
  \/ \E p \in Slots : GetPending(p)
  \/ \E p \in Slots : Dispatch(p)
  \/ \E p \in Slots : Reconcile(p)
  \/ \E p \in Slots : Fetch(p)
  \/ \E p \in Slots : Merge(p)
  \/ \E p \in Slots : Finish(p)
  \/ CompleteSave
  \/ \E title \in Titles, status \in CreateStatuses : SaveOffline(title, status)
  \/ \E task \in view, status \in TaskStatuses : SaveUpdateOffline(task, status)
  \/ \E task \in view : MarkForOfflineDelete(task)

Spec == Init /\ [][Next]_vars

\* a step of a running pass: the continuation of one of its awaits
PassStep ==
  \E p \in Slots :
    GetPending(p) \/ Dispatch(p) \/ Reconcile(p) \/ Fetch(p) \/ Merge(p) \/ Finish(p)

\* every storage call and every gateway call a pass awaits settles, and the
\* event loop then runs the continuation
LiveSpec == Spec /\ WF_vars(PassStep)

\* ------------------------------------------------- a later session
\* The page is loaded at time 2. The remote table holds one task written at
\* time 1 and one written at time 2; an earlier session may have pulled the
\* first and may have stored the watermark 1.
LaterRemotes ==
  {[i \in {ServerId(1), ServerId(2)} |->
      CreatedRow(i, [title |-> title, description |-> Null, assigned_to |-> Null,
                     status |-> status], IF i = ServerId(1) THEN 1 ELSE 2)] :
     title \in Titles, status \in CreateStatuses}

LaterStores(rem) ==
  {EmptyStore,
   [k \in {ServerId(1)} |-> [AsTask(rem[ServerId(1)]) EXCEPT !.local_id = ServerId(1)]]}

LaterInit ==
  /\ remote \in LaterRemotes
  /\ store \in LaterStores(remote)
  /\ nextLocal = 1
  /\ now = 2
  /\ lastSync \in {NoTime, 1}
  /\ InitSession

LaterSpec == LaterInit /\ [][Next]_vars

\* ------------------------------------- the store under arbitrary calls
\* Every operation of offlineDB that writes, called with any arguments in any
\* order; saveTask and updateLocalTaskStatus read and put in two transactions.
MaxCalls == 2
MaxInFlight == 2

\* the ids the calls name: two of each kind, so that any two can conflict
CallLocalIds == {LocalId(1), LocalId(2)}
CallServerIds == {ServerId(1), ServerId(2)}

\* the primary keys the calls name
StoreKeys == CallLocalIds \cup CallServerIds

\* the tasks saveTask is called with
TaskInputs ==
  [local_id : {Undef} \cup CallLocalIds, id : {Undef} \cup CallServerIds,
   title : Titles, description : {Null}, assigned_to : {Null},
   status : CreateStatuses, is_deleted : {FALSE}, created_at : {NoTime},
   updated_at : {NoTime}, sync_status : {Undef} \cup SyncStatuses]

\* the tasks the gateway returns
ServerTaskInputs ==
  {t \in TaskInputs : t.local_id = Undef /\ t.id # Undef /\ t.sync_status = "synced"}

\* the pages bulkSaveTasks is called with
\* what a gateway call hands to updateTaskAfterSync: a task with or without
\* the timestamps of the server row
ReturnedTasks ==
  {[t EXCEPT !.status = status, !.created_at = c, !.updated_at = u] :
     t \in ServerTaskInputs, status \in {"pending", "completed"},
     c \in {NoTime, 1}, u \in {NoTime, 1}}

PageInputs ==
  {<<t>> : t \in ServerTaskInputs}
    \cup {<<t, u>> : t \in ServerTaskInputs, u \in ServerTaskInputs}

CallBudget ==
  /\ userOps < MaxCalls
  /\ userOps' = userOps + 1

\* saveTask(taskInput) up to its put, lines 85-109
CallSaveTask(taskInput) ==
  /\ CallBudget
  /\ Len(saving) < MaxInFlight
  /\ taskInput.local_id = Undef => nextLocal <= NumLocal
  /\ LET taskToSave == IF taskInput.local_id = Undef
                       THEN [taskInput EXCEPT !.local_id = LocalId(nextLocal)]
                       ELSE taskInput
     IN /\ nextLocal' = IF taskInput.local_id = Undef THEN nextLocal + 1 ELSE nextLocal
        /\ IF taskToSave.id = Undef
           THEN /\ store' = Put(store, SaveStamp(taskToSave, now))
                /\ UNCHANGED saving
           ELSE /\ saving' = Append(saving, SaveCall(SaveConsolidate(store, taskToSave)))
                /\ UNCHANGED store
  /\ UNCHANGED <<view, envVars, isSyncing, lastSync, initVars, passVars, result>>

\* the sequence without its i-th element
Without(s, i) == [j \in 1..(Len(s) - 1) |-> IF j < i THEN s[j] ELSE s[j + 1]]

\* saveTask, lines 111-135: the put, rejected when the index 'id' forbids it
PutSaveTask(i) ==
  /\ saving[i].op = "saveTask"
  /\ IF PutOk(store, SaveStamp(saving[i].task, now))
     THEN store' = Put(store, SaveStamp(saving[i].task, now))
     ELSE UNCHANGED store
  /\ saving' = Without(saving, i)
  /\ UNCHANGED <<view, nextLocal, userOps, envVars, isSyncing, lastSync, initVars,
                 passVars, result>>

\* bulkSaveTasks(tasks): one transaction, aborted as a whole when a put fails
CallBulkSaveTasks(tasks) ==
  /\ CallBudget
  /\ IF BulkOk(store, tasks, now)
     THEN store' = bulkSaveTasks(store, tasks, now)
     ELSE UNCHANGED store
  /\ UNCHANGED <<view, saving, nextLocal, envVars, isSyncing, lastSync, initVars,
                 passVars, result>>

\* variant: no transaction, the puts made before the failure stay
PartialBatch(st, tasks, n, time) == bulkSaveTasks(st, SubSeq(tasks, 1, n), time)

\* bulkSaveTasks, lines 141 and 179-181: a request that fails aborts the
\* transaction, which undoes the n puts made before
AbortedBatch(st, tasks, n, time) == st

\* bulkSaveTasks(tasks) whose put number n + 1 is refused by the storage
\* engine: the promise rejects
BulkSaveFails(tasks, n) ==
  /\ CallBudget
  /\ n < Len(tasks)
  /\ BulkOk(store, SubSeq(tasks, 1, n), now)
  /\ store' = AbortedBatch(store, tasks, n, now)
  /\ result' = Thrown("StorageFailure")
  /\ UNCHANGED <<view, saving, nextLocal, envVars, isSyncing, lastSync, initVars,
                 passVars>>

\* updateTaskAfterSync(originalLocalId, serverTaskData): one transaction
CallUpdateTaskAfterSync(originalLocalId, serverTaskData) ==
  /\ CallBudget
  /\ IF updateTaskAfterSyncOk(store, originalLocalId, serverTaskData, now)
     THEN store' = updateTaskAfterSync(store, originalLocalId, serverTaskData, now)
     ELSE UNCHANGED store
  /\ UNCHANGED <<view, saving, nextLocal, envVars, isSyncing, lastSync, initVars,
                 passVars, result>>

\* an updateLocalTaskStatus that has read its task, line 278
StatusCall(task, local_id_param, sync_status, serverId) ==
  [op |-> "updateLocalTaskStatus", task |-> task, local_id |-> local_id_param,
   sync_status |-> sync_status, id |-> serverId]

\* updateLocalTaskStatus(local_id_param, sync_status, {id}) up to its put
CallUpdateLocalTaskStatus(local_id_param, sync_status, serverId) ==
  /\ CallBudget
  /\ Len(saving) < MaxInFlight
  /\ IF local_id_param \in DOMAIN store
     THEN saving' = Append(saving, StatusCall(store[local_id_param], local_id_param,
                                              sync_status, serverId))
     ELSE UNCHANGED saving
  /\ UNCHANGED <<store, view, nextLocal, envVars, isSyncing, lastSync, initVars,
                 passVars, result>>

\* updateLocalTaskStatus, lines 281-291
PutLocalTaskStatus(i) ==
  /\ saving[i].op = "updateLocalTaskStatus"
  /\ LET taskToSave == StatusRecord(saving[i].task, saving[i].local_id,
                                    saving[i].sync_status, saving[i].id, NoTime, now)
     IN IF PutOk(store, taskToSave)
        THEN store' = Put(store, taskToSave)
        ELSE UNCHANGED store
  /\ saving' = Without(saving, i)
  /\ UNCHANGED <<view, nextLocal, userOps, envVars, isSyncing, lastSync, initVars,
                 passVars, result>>

\* deleteTask(local_id)
CallDeleteTask(local_id) ==
  /\ CallBudget
  /\ store' = Delete(store, local_id)
  /\ UNCHANGED <<view, saving, nextLocal, envVars, isSyncing, lastSync, initVars,
                 passVars, result>>

StoreNext ==
  \/ \E taskInput \in TaskInputs : CallSaveTask(taskInput)
  \/ \E i \in DOMAIN saving : PutSaveTask(i)
  \/ \E tasks \in PageInputs : CallBulkSaveTasks(tasks)
  \/ \E tasks \in PageInputs, n \in 0..1 : BulkSaveFails(tasks, n)
  \/ \E originalLocalId \in StoreKeys, serverTaskData \in ReturnedTasks :
       CallUpdateTaskAfterSync(originalLocalId, serverTaskData)
  \/ \E local_id_param \in StoreKeys, sync_status \in SyncStatuses,
        serverId \in {Undef} \cup CallServerIds :
       CallUpdateLocalTaskStatus(local_id_param, sync_status, serverId)
  \/ \E i \in DOMAIN saving : PutLocalTaskStatus(i)
  \/ \E local_id \in StoreKeys : CallDeleteTask(local_id)

\* the store a session at time 1 left: empty, or one task created offline
InitialStores ==
  {EmptyStore} \cup
  {[k \in {LocalId(1)} |->
      [local_id |-> LocalId(1), id |-> Undef, title |-> title, description |-> Null,
       assigned_to |-> Null, status |-> status, is_deleted |-> FALSE,
       created_at |-> 1, updated_at |-> 1, sync_status |-> "pending_create"]] :
     title \in Titles, status \in CreateStatuses}

StoreInit ==
  /\ store \in InitialStores
  /\ nextLocal = Cardinality(DOMAIN store) + 1
  /\ remote = <<>>
  /\ now = 2
  /\ lastSync = NoTime
  /\ InitSession

StoreSpec == StoreInit /\ [][StoreNext]_vars

\* --------------------------------------------------------- properties
PushPcs == {"dispatch", "reconcile"}
PullPcs == {"fetch", "merge", "finish"}
Running == {p \in Slots : pc[p] # "idle"}

\* the step in which invocation p returns to its caller
Returns(p) == pc[p] # "idle" /\ pc'[p] = "idle"

\* a step that invokes synchronize
Invokes == invocations' # invocations

\* C1: an invocation of synchronize made while an earlier one holds the
\* syncing flag returns the Busy result 'Sync in progress' and changes neither
\* the store, the remote table, the watermark, the flag nor the running pass;
\* so at no time are two passes running.
C1_BusyInvocationChangesNothing ==
  /\ [](Cardinality(Running) <= 1)
  /\ [][(Invokes /\ online' /\ isSyncing)
          => /\ result' = Returned(FALSE, "Sync in progress")
             /\ UNCHANGED <<store, remote, lastSync, isSyncing, passVars>>]_vars

\* a Busy result was returned while a pass is in its push phase
C1_Witness ==
  /\ result = Returned(FALSE, "Sync in progress")
  /\ \E p \in Slots : pc[p] \in PushPcs
  /\ isSyncing

\* C2: whenever an invocation that took the syncing flag returns, on the
\* success path or through the catch, the flag is false after the return.
C2_FlagResetOnEveryExit ==
  [][\A p \in Slots : Returns(p) => ~isSyncing']_vars

\* a pass has returned through the catch of a storage failure, flag released
C2_Witness ==
  /\ result = Returned(FALSE, "StorageFailure")
  /\ ~isSyncing
  /\ Running = {}

\* C3: no invocation of synchronize throws to its caller: whatever it ended
\* with is a structured result with a boolean success flag, and a failure
\* carries its error.
C3_NeverThrows ==
  /\ result.kind \in {"pending", "returned"}
  /\ result.success \in BOOLEAN
  /\ result.kind = "returned" => (result.success <=> result.error = Undef)

\* a storage failure inside a pass came back as a failure result; the store
\* still holds a pending record and the watermark was never written
C3_Witness ==
  /\ result.kind = "returned"
  /\ ~result.success
  /\ result.error = "StorageFailure"
  /\ lastSync = NoTime
  /\ \E k \in DOMAIN store : store[k].sync_status \in PendingStatuses

\* C4: an invocation of synchronize made while connectivity is down returns
\* the Offline result and changes neither the store, the remote table, the
\* watermark, the syncing flag nor any running pass (no gateway call, no
\* store read or write).
C4_OfflineInvocationChangesNothing ==
  [][(Invokes /\ ~online')
       => /\ result' = Returned(FALSE, "Offline")
          /\ UNCHANGED <<store, remote, lastSync, isSyncing, passVars>>]_vars

\* the Offline result was returned
C4_Witness ==
  /\ result = Returned(FALSE, "Offline")
  /\ ~online
  /\ invocations > 0

\* C5: once a pass is in its pull phase, every pending record it read at its
\* start has been dispatched to the gateway, whichever of the gateway calls
\* failed; and a pass in its push phase leaves it only for the remote fetch.
C5_FailedPushDoesNotAbortBatch ==
  /\ [](\A p \in Slots : pc[p] \in PullPcs =>
          \A i \in DOMAIN pendingRead[p] :
             \E j \in DOMAIN gwLog[p] : gwLog[p][j].task = pendingRead[p][i])
  /\ [][\A p \in Slots : pc[p] \in PushPcs => pc'[p] \in PushPcs \cup {"fetch"}]_vars

\* the first of two gateway calls failed, the second was made and succeeded,
\* and the pass is about to fetch
C5_Witness ==
  \E p \in Slots :
    /\ pc[p] = "fetch"
    /\ Len(pendingRead[p]) = 2
    /\ Len(gwLog[p]) = 2
    /\ ~gwLog[p][1].ok
    /\ gwLog[p][2].ok

\* C6 (as the claim states it): when a pass that no local mutation
\* interleaved with returns, every record whose push failed in it (gateway
\* failure, or reconcile write failure) is in the store exactly as the pass
\* read it: same pending_* sync_status, same field values.
C6_FailedPushStaysPending ==
  [][\A p \in Slots : (Returns(p) /\ quiet[p]) =>
       \A i \in DOMAIN gwLog[p] :
          ~(gwLog[p][i].ok /\ gwLog[p][i].reconciled) =>
             /\ gwLog[p][i].task.local_id \in DOMAIN store'
             /\ store'[gwLog[p][i].task.local_id] = gwLog[p][i].task]_vars

\* C7: in the pull phase of a pass its push loop has no record left and no
\* reconcile in progress, and a pass in its pull phase never goes back to a
\* push step.
C7_PushPrecedesPull ==
  /\ [](\A p \in Slots : pc[p] \in PullPcs =>
          pendingTasks[p] = <<>> /\ syncedTask[p] = NoTask)
  /\ [][\A p \in Slots : pc[p] \in PullPcs =>
          pc'[p] \notin PushPcs \cup {"getPending"}]_vars

\* a pass that pushed two records is merging what it fetched
C7_Witness ==
  \E p \in Slots :
    /\ pc[p] = "merge"
    /\ Len(pendingRead[p]) = 2
    /\ Len(gwLog[p]) = 2
    /\ serverUpdates[p] # <<>>

\* the gateway operation the spec assigns to a sync_status
OpFor(sync_status) ==
  CASE sync_status = "pending_create" -> "createTask"
    [] sync_status = "pending_update" -> "updateTask"
    [] sync_status = "pending_delete" -> "softDeleteTask"
    [] OTHER -> "none"

\* C8: the i-th gateway call of a pass is the one call made for the i-th
\* pending record it read: createTask for pending_create, updateTask on the
\* record's server id for pending_update, softDeleteTask on it for
\* pending_delete; its payload has neither local_id nor sync_status; and in
\* the pull phase there are as many calls as records.
C8_OneGatewayCallPerRecord ==
  \A p \in Slots :
    /\ Len(gwLog[p]) <= Len(pendingRead[p])
    /\ pc[p] \in PullPcs => Len(gwLog[p]) = Len(pendingRead[p])
    /\ \A i \in DOMAIN gwLog[p] :
         /\ gwLog[p][i].task = pendingRead[p][i]
         /\ gwLog[p][i].call.op = OpFor(pendingRead[p][i].sync_status)
         /\ gwLog[p][i].call.op # "createTask" =>
              gwLog[p][i].call.id = pendingRead[p][i].id /\ gwLog[p][i].call.id # Undef
         /\ "local_id" \notin DOMAIN gwLog[p][i].call.payload
         /\ "sync_status" \notin DOMAIN gwLog[p][i].call.payload

\* a pass has made a createTask call and then an updateTask or softDeleteTask
C8_Witness ==
  \E p \in Slots :
    /\ Len(gwLog[p]) = 2
    /\ gwLog[p][1].call.op = "createTask"
    /\ gwLog[p][2].call.op \in {"updateTask", "softDeleteTask"}

\* C9 (as the claim states it): when a pass that no local mutation
\* interleaved with returns, for every createTask call of it that succeeded
\* with server id S for the record of local_id L, the store holds exactly one
\* record with id S, under key L, with sync_status synced.
C9_CreatedRecordKeepsLocalId ==
  [][\A p \in Slots : (Returns(p) /\ quiet[p]) =>
       \A i \in DOMAIN gwLog[p] :
          (gwLog[p][i].call.op = "createTask" /\ gwLog[p][i].ok) =>
             /\ {k \in DOMAIN store' : store'[k].id = gwLog[p][i].serverId}
                  = {gwLog[p][i].task.local_id}
             /\ store'[gwLog[p][i].task.local_id].sync_status = "synced"]_vars

\* C10: in every state of the store reached by any interleaving of saveTask,
\* bulkSaveTasks, updateTaskAfterSync, updateLocalTaskStatus and deleteTask,
\* no two records carry the same server id.
C10_OneRecordPerServerId ==
  \A k1, k2 \in DOMAIN store :
     (store[k1].id # Undef /\ store[k1].id = store[k2].id) => k1 = k2

\* a call that has read the store is about to put a record whose server id
\* has meanwhile been stored under another key
C10_Witness ==
  \E i \in DOMAIN saving, k \in DOMAIN store :
    /\ LET rec == IF saving[i].op = "saveTask" THEN saving[i].task
                  ELSE [saving[i].task EXCEPT !.id = saving[i].id]
       IN rec.id # Undef /\ store[k].id = rec.id /\ k # rec.local_id
    /\ Cardinality(DOMAIN store) >= 2

\* the keys under which the store holds server id sid
KeysOf(st, sid) == {k \in DOMAIN st : st[k].id = sid}

\* C11: a saveTask of a task with server id S, looked up while the store holds
\* S under another key L', goes on with local_id L' and leaves the store alone
\* until its put; its put, made while S is still under L', writes the stamped
\* task under L' (the local_id it returns) and touches no other key, so no
\* record appears under the input's own local_id; and at all times S is under
\* at most one key.
C11_SaveConsolidatesLocalId ==
  /\ [][\A t \in TaskInputs :
          (CallSaveTask(t) /\ t.id # Undef /\ KeysOf(store, t.id) \ {t.local_id} # {})
            => /\ saving' # saving
               /\ {saving'[Len(saving')].task.local_id} = KeysOf(store, t.id)
               /\ store' = store]_vars
  /\ [][\A i \in DOMAIN saving :
          (PutSaveTask(i) /\ KeysOf(store, saving[i].task.id) = {saving[i].task.local_id})
            => /\ store' = Put(store, SaveStamp(saving[i].task, now))
               /\ DOMAIN store' = DOMAIN store
               /\ store'[saveTaskReturn(saving[i].task)].id = saving[i].task.id]_vars
  /\ [](\A sid \in CallServerIds : Cardinality(KeysOf(store, sid)) <= 1)

\* a page stored srv-1 under key srv-1; a saveTask of a task with that server
\* id and no local_id drew a fresh local_id, was consolidated and has put: the
\* store holds that one key, now pending_update
C11_Witness ==
  /\ userOps = 2
  /\ nextLocal = 2
  /\ saving = <<>>
  /\ DOMAIN store = {ServerId(1)}
  /\ store[ServerId(1)].sync_status = "pending_update"

\* C12: updateTaskAfterSync(A, serverTask), called when serverTask.id is stored
\* under another local_id B, in the one step of its transaction removes the
\* record under A and leaves under B the server's data (over those of A) with
\* sync_status synced; every other record is untouched.
C12_ConflictMovesRecordAtomically ==
  [][\A A \in StoreKeys, s \in ReturnedTasks :
       (CallUpdateTaskAfterSync(A, s) /\ KeysOf(store, s.id) \ {A} # {})
         => \E B \in KeysOf(store, s.id) :
              /\ DOMAIN store' = DOMAIN store \ {A}
              /\ store'[B].local_id = B
              /\ store'[B].id = s.id
              /\ store'[B].title = s.title
              /\ store'[B].status = s.status
              /\ store'[B].is_deleted = s.is_deleted
              /\ store'[B].updated_at =
                   (IF s.updated_at # NoTime THEN s.updated_at ELSE now)
              /\ store'[B].created_at =
                   (IF s.created_at # NoTime THEN s.created_at
                    ELSE IF A \in DOMAIN store /\ store[A].created_at # NoTime
                    THEN store[A].created_at ELSE store'[B].updated_at)
              /\ store'[B].sync_status = "synced"
              /\ \A k \in DOMAIN store \ {A, B} : store'[k] = store[k]]_vars

\* a record existed under A while the server id was stored under B, and the
\* call left B alone in the store
C12_Witness ==
  /\ userOps = 2
  /\ saving = <<>>
  /\ nextLocal = 2
  /\ DOMAIN store = {ServerId(1)}
  /\ store[ServerId(1)].sync_status = "synced"
  /\ store[ServerId(1)].created_at = 1

\* C13: in every reachable state, every stored record whose sync_status is
\* synced carries a server id.
C13_SyncedHasServerId ==
  \A k \in DOMAIN store : store[k].sync_status = "synced" => store[k].id # Undef

\* a record created offline has been pushed and reconciled: it is synced under
\* its local key and carries the id the server assigned
C13_Witness ==
  \E k \in DOMAIN store \cap LocalIds :
    /\ store[k].sync_status = "synced"
    /\ store[k].id \in ServerIds

\* C14: getAllTasks returns stored records only, never one that is deleted
\* and synced, and every other stored record, those deleted but still
\* pending_delete included.
C14_GetAllHidesOnlyTombstones ==
  /\ \A task \in getAllTasks(store) :
        /\ \E k \in DOMAIN store : store[k] = task
        /\ task.is_deleted => task.sync_status # "synced"
  /\ \A k \in DOMAIN store :
        (store[k].is_deleted = FALSE \/ store[k].sync_status \in PendingStatuses)
          => store[k] \in getAllTasks(store)

\* the store holds a reconciled tombstone, which getAllTasks hides, next to a
\* record it returns
C14_Witness ==
  /\ \E k \in DOMAIN store :
        /\ store[k].is_deleted /\ store[k].sync_status = "synced"
        /\ store[k] \notin getAllTasks(store)
  /\ getAllTasks(store) # {}

\* C15: getPendingChanges returns stored records only, each of them pending
\* (never synced), no record twice, and every stored pending record.
C15_PendingChangesExact ==
  LET pending == getPendingChanges(store)
  IN /\ \A i \in DOMAIN pending :
          /\ pending[i].local_id \in DOMAIN store
          /\ store[pending[i].local_id] = pending[i]
          /\ pending[i].sync_status \in PendingStatuses
          /\ pending[i].sync_status # "synced"
     /\ \A i, j \in DOMAIN pending :
          pending[i].local_id = pending[j].local_id => i = j
     /\ \A k \in DOMAIN store :
          store[k].sync_status \in PendingStatuses
            => \E i \in DOMAIN pending : pending[i] = store[k]

\* two pending records of different kinds are returned and a synced record,
\* stored next to them, is not
C15_Witness ==
  /\ Len(getPendingChanges(store)) = 2
  /\ \E i, j \in DOMAIN getPendingChanges(store) :
        getPendingChanges(store)[i].sync_status
          # getPendingChanges(store)[j].sync_status
  /\ \E k \in DOMAIN store : store[k].sync_status = "synced"

\* the ids of the tasks of a page
IdsOf(tasks) == {tasks[i].id : i \in DOMAIN tasks}

\* C16: the watermark the pull phase passes to the gateway is null (NoTime)
\* when the pass is forced or no watermark is stored, and the stored one
\* otherwise; a fetch that succeeds returns every remote row when the
\* watermark is null, and otherwise exactly the rows whose updated_at is
\* strictly greater than the watermark, each once.
C16_PullWatermark ==
  /\ [][\A p \in Slots :
          (pc[p] # "fetch" /\ pc'[p] = "fetch")
            => lastSyncArg'[p] =
                 (IF force[p] \/ lastSync = NoTime THEN NoTime ELSE lastSync)]_vars
  /\ [][\A p \in Slots :
          (pc[p] = "fetch" /\ pc'[p] = "merge" /\ ~fetchError'[p])
            => /\ IdsOf(serverUpdates'[p]) =
                    (IF lastSyncArg[p] = NoTime THEN DOMAIN remote
                     ELSE {i \in DOMAIN remote : remote[i].updated_at > lastSyncArg[p]})
               /\ Len(serverUpdates'[p]) = Cardinality(IdsOf(serverUpdates'[p]))
               /\ \A i \in DOMAIN serverUpdates'[p] :
                    serverUpdates'[p][i] = AsTask(remote[serverUpdates'[p][i].id])]_vars

\* a pass that was not forced fetched with the stored watermark 1: of the rows
\* written at times 1 and 2 it got the second only
C16_Witness ==
  \E p \in Slots :
    /\ pc[p] = "merge"
    /\ ~force[p]
    /\ lastSync = 1
    /\ lastSyncArg[p] = 1
    /\ remote[ServerId(1)].updated_at = 1
    /\ IdsOf(serverUpdates[p]) = {ServerId(2)}

\* C17: a pass that returns success has set the watermark to the current
\* time, failed pushes and a failed fetch notwithstanding; the watermark is
\* written at line 70 only, after which the pass cannot be aborted, and the
\* step that aborts a pass leaves the watermark as it was.
C17_WatermarkAfterPass ==
  /\ [][\A p \in Slots :
          (Returns(p) /\ result'.success) => (lastSync = now /\ lastSync' = now)]_vars
  /\ [][\A p \in Slots :
          (Returns(p) /\ ~result'.success) => lastSync' = lastSync]_vars
  /\ [][lastSync' # lastSync
          => \E p \in Slots : pc[p] = "merge" /\ pc'[p] = "finish" /\ lastSync' = now]_vars
  /\ [][\A p \in Slots :
          pc[p] = "finish" => (pc'[p] = "finish" \/ (Returns(p) /\ result'.success))]_vars

\* a pass in which a push failed and the fetch returned an error has moved the
\* watermark from 1 to the current time
C17_Witness ==
  \E p \in Slots :
    /\ pc[p] = "finish"
    /\ fetchError[p]
    /\ \E i \in DOMAIN gwLog[p] : ~gwLog[p][i].ok
    /\ ~force[p]
    /\ lastSyncArg[p] = 1
    /\ lastSync = 2

\* the step in which the bulkSaveTasks of the pull phase of pass p commits
PullCommits(p) == pc[p] = "merge" /\ pc'[p] = "finish"

\* C18: when the pull phase of a pass succeeds, every task the fetch returned
\* is stored under exactly one local_id, with the fetched values of its
\* fields and sync_status synced.
C18_FetchedRecordsStored ==
  [][\A p \in Slots :
       PullCommits(p) =>
         \A i \in DOMAIN serverUpdates[p] :
           LET fetched == serverUpdates[p][i]
           IN /\ Cardinality(KeysOf(store', fetched.id)) = 1
              /\ \A k \in KeysOf(store', fetched.id) :
                   /\ store'[k] = [fetched EXCEPT !.local_id = k]
                   /\ store'[k].sync_status = "synced"]_vars

\* the pull has committed a task that was stored with a change still pending:
\* it is now synced under its local key, with the fetched values
C18_Witness ==
  \E p \in Slots :
    /\ pc[p] = "finish"
    /\ \E i \in DOMAIN gwLog[p] : ~gwLog[p][i].ok /\ gwLog[p][i].task.id # Undef
    /\ \E i \in DOMAIN serverUpdates[p], k \in DOMAIN store :
         /\ store[k] = [serverUpdates[p][i] EXCEPT !.local_id = k]
         /\ \E j \in DOMAIN gwLog[p] : ~gwLog[p][j].ok /\ gwLog[p][j].task.local_id = k

\* C19: a bulkSaveTasks that fails, after however many puts, leaves the store
\* exactly as it was; one that succeeds has made every put, the last one
\* included, in the one step of its transaction, so that no state holds the
\* effect of only a part of a batch.
C19_BulkSaveAllOrNothing ==
  /\ [][\A tasks \in PageInputs, n \in 0..1 :
          BulkSaveFails(tasks, n) => store' = store]_vars
  /\ [][\A tasks \in PageInputs :
          CallBulkSaveTasks(tasks)
            => /\ store' = bulkSaveTasks(store, tasks, now)
               /\ Cardinality(KeysOf(store', tasks[Len(tasks)].id)) = 1
               /\ \A k \in KeysOf(store', tasks[Len(tasks)].id) :
                    store'[k] = [tasks[Len(tasks)] EXCEPT
                                   !.local_id = k, !.created_at = now, !.updated_at = now]]_vars

\* a bulkSaveTasks has failed on a store that held a record: the record is
\* there and nothing of the batch is
C19_Witness ==
  /\ result = Thrown("StorageFailure")
  /\ userOps = 1
  /\ DOMAIN store = {LocalId(1)}
  /\ store[LocalId(1)].sync_status = "pending_create"

\* the tasks the two operations are compared on: with or without timestamps
\* of an earlier time, and with a local_id or a server id to be stored under
RuleInputs ==
  {t \in [local_id : {Undef} \cup CallLocalIds, id : {Undef} \cup CallServerIds,
          title : Titles, description : {Null}, assigned_to : {Null},
          status : CreateStatuses, is_deleted : {FALSE}, created_at : {NoTime, 1},
          updated_at : {NoTime, 1}, sync_status : {Undef} \cup SyncStatuses] :
     t.local_id # Undef \/ t.id # Undef}

\* variant: the record already stored for the server id keeps its status
saveOverExisting(st, taskInput, generated, time) ==
  LET taskToSave == IF taskInput.local_id = Undef
                    THEN [taskInput EXCEPT !.local_id = generated]
                    ELSE taskInput
      stamped == SaveStamp(SaveConsolidate(st, taskToSave), time)
  IN IF HasServerId(st, taskInput.id)
     THEN [stamped EXCEPT !.status = GetFromIndex(st, taskInput.id).status]
     ELSE stamped

\* the record saveTask(taskInput) puts when nothing runs between its read of
\* the index and its put, lines 88-133; generated is the local_id of line 95
saveTaskRecord(st, taskInput, generated, time) ==
  LET taskToSave == IF taskInput.local_id = Undef
                    THEN [taskInput EXCEPT !.local_id = generated]
                    ELSE taskInput
  IN SaveStamp(SaveConsolidate(st, taskToSave), time)

\* the record bulkSaveTasks([task]) puts, lines 144-179
bulkSaveRecord(st, task, time) == BulkPrepare(st, task, time)

getTaskByLocalId(st, local_id) ==
  IF local_id # Undef /\ local_id \in DOMAIN st THEN st[local_id] ELSE Undef

\* the fields of a task that describe the task itself
DomainFields(task) ==
  [id |-> task.id, title |-> task.title, description |-> task.description,
   assigned_to |-> task.assigned_to, status |-> task.status,
   is_deleted |-> task.is_deleted]

\* the tasks saveTask is given in the round trip: any identity, any domain
\* fields, among them values no stored record has
RoundTripInputs ==
  [local_id : {Undef} \cup CallLocalIds, id : {Undef} \cup CallServerIds,
   title : Titles \cup {"Buy bread"}, description : {Null}, assigned_to : {Null},
   status : TaskStatuses, is_deleted : BOOLEAN, created_at : {NoTime},
   updated_at : {NoTime}, sync_status : {Undef} \cup SyncStatuses]

\* C21: on every store and for every task T, a saveTask(T) that returns has
\* stored, under the local_id it returns, a record whose domain fields (id,
\* title, description, assigned_to, status, is_deleted) are those of T, so
\* that getTaskByLocalId of the returned local_id yields them.
C21_SaveRoundTrip ==
  /\ [](\A T \in RoundTripInputs :
          LET rec == saveTaskRecord(store, T, LocalId(nextLocal), now)
          IN PutOk(store, rec)
               => DomainFields(getTaskByLocalId(Put(store, rec), saveTaskReturn(rec)))
                    = DomainFields(T))
  /\ [][\A i \in DOMAIN saving :
          (PutSaveTask(i) /\ PutOk(store, SaveStamp(saving[i].task, now)))
            => DomainFields(getTaskByLocalId(store', saveTaskReturn(saving[i].task)))
                 = DomainFields(saving[i].task)]_vars

\* the store holds a record with a server id; a task with that id and
\* another title and status, saved, is read back with its own title and
\* status under the key of the stored record
C21_Witness ==
  \E T \in RoundTripInputs :
    /\ T.local_id = Undef
    /\ HasServerId(store, T.id)
    /\ GetFromIndex(store, T.id).title # T.title
    /\ GetFromIndex(store, T.id).status # T.status
    /\ saveTaskReturn(saveTaskRecord(store, T, LocalId(nextLocal), now))
         = GetFromIndex(store, T.id).local_id
    /\ DomainFields(getTaskByLocalId(
           Put(store, saveTaskRecord(store, T, LocalId(nextLocal), now)),
           GetFromIndex(store, T.id).local_id)) = DomainFields(T)

\* C22: a record the store holds with a server id is never removed from the
\* store, neither by a delete of the user nor by a pass: no step takes the
\* key of such a record out of the store.
C22_SyncedRecordNeverRemoved ==
  [][\A k \in DOMAIN store : store[k].id # Undef => k \in DOMAIN store']_vars

\* C23: no failure of a storage call aborts a pass. The storage calls are the
\* only calls of a pass that throw (the gateway calls return their errors),
\* so every pass that returns has gone through its pull phase to line 73 and
\* returns success.
C23_StorageFailureNeverAbortsPass ==
  [][\A p \in Slots :
       Returns(p) => (pc[p] = "finish" /\ result' = Returned(TRUE, Undef))]_vars

\* the pull phase of the pass that returns in this step has failed: the fetch
\* returned an error, or the pass was aborted in its merge
PullFailed(p) ==
  Returns(p) /\ (fetchError[p] \/ (pc[p] = "merge" /\ ~result'.success))

\* C24: the step in which a fetch fails, and the merge step after a failed
\* fetch, leave the store as it is; and when a pass whose pull phase failed
\* returns, no local mutation having interleaved, every record it reconciled
\* in its push phase is stored once, synced, with its server id and the
\* values of the server's row.
C24_PullFailureKeepsPushResults ==
  /\ [][\A p \in Slots :
          ((pc[p] = "fetch" /\ fetchError'[p])
             \/ (pc[p] = "merge" /\ fetchError[p] /\ pc'[p] # "merge"))
            => store' = store]_vars
  /\ [][\A p \in Slots :
          (PullFailed(p) /\ quiet[p]) =>
            \A i \in DOMAIN gwLog[p] :
              (gwLog[p][i].ok /\ gwLog[p][i].reconciled) =>
                /\ Cardinality(KeysOf(store', gwLog[p][i].serverId)) = 1
                /\ \A k \in KeysOf(store', gwLog[p][i].serverId) :
                     /\ store'[k].sync_status = "synced"
                     /\ DomainFields(store'[k])
                          = DomainFields(remote[gwLog[p][i].serverId])]_vars

\* a pass has created a record on the server and reconciled it, and its fetch
\* has then returned an error: the record is synced under its local key
C24_Witness ==
  \E p \in Slots :
    /\ pc[p] = "finish"
    /\ fetchError[p]
    /\ quiet[p]
    /\ \E i \in DOMAIN gwLog[p], k \in DOMAIN store \cap LocalIds :
         /\ gwLog[p][i].ok /\ gwLog[p][i].reconciled
         /\ gwLog[p][i].call.op = "createTask"
         /\ store[k].id = gwLog[p][i].serverId
         /\ store[k].sync_status = "synced"

\* the entries of gwLog[p] that are creates
Creates(p) == {i \in DOMAIN gwLog[p] : gwLog[p][i].call.op = "createTask"}

\* C25: once the push phase of a pass is over, every pending_create record
\* the pass read has had its own createTask call, whatever its fields; the
\* creates that succeeded returned pairwise distinct server ids; and, no
\* local mutation having interleaved, each record created and reconciled is
\* stored under its own local_id with its own server id.
C25_EveryCreateIsSeparate ==
  \A p \in Slots : pc[p] \in PullPcs =>
    /\ \A i \in DOMAIN pendingRead[p] :
         (pendingRead[p][i].sync_status = "pending_create" /\ pendingRead[p][i].id = Undef)
           => Cardinality({j \in Creates(p) :
                             gwLog[p][j].task.local_id = pendingRead[p][i].local_id}) = 1
    /\ \A i, j \in Creates(p) :
         (i # j /\ gwLog[p][i].ok /\ gwLog[p][j].ok)
           => gwLog[p][i].serverId # gwLog[p][j].serverId
    /\ (quiet[p] /\ pc[p] = "fetch") =>
         \A i \in Creates(p) :
           (gwLog[p][i].ok /\ gwLog[p][i].reconciled) =>
             /\ gwLog[p][i].task.local_id \in DOMAIN store
             /\ store[gwLog[p][i].task.local_id].id = gwLog[p][i].serverId
             /\ store[gwLog[p][i].task.local_id].sync_status = "synced"

\* two records created offline with equal fields have been pushed in one
\* pass: two creates, two server ids, two synced records
C25_Witness ==
  \E p \in Slots :
    /\ pc[p] = "fetch"
    /\ quiet[p]
    /\ Cardinality(Creates(p)) = 2
    /\ \A i \in Creates(p) : gwLog[p][i].ok /\ gwLog[p][i].reconciled
    /\ DomainFields([gwLog[p][1].task EXCEPT !.id = Undef])
         = DomainFields([gwLog[p][2].task EXCEPT !.id = Undef])
    /\ store[LocalId(1)].id # store[LocalId(2)].id
    /\ store[LocalId(1)].sync_status = "synced"
    /\ store[LocalId(2)].sync_status = "synced"

\* C26: the step that completes a store write of a task action, and the step
\* in which a pass returns to the handler that started it, dispatch the
\* change notification: the listener re-reads the store as these writes
\* left it.
C26_NotificationFollows ==
  /\ [][(store' # store /\ initPc' = initPc /\ \A p \in Slots : pc'[p] = pc[p])
          => view' = getAllTasks(store')]_vars
  /\ [][\A p \in Slots : Returns(p) => view' = getAllTasks(store')]_vars

\* C27: if every call a pass awaits settles, a pass that has set the flag
\* returns and the flag becomes false again.
C27_FlagEventuallyReleased ==
  (isSyncing \/ \E p \in Slots : pc[p] # "idle") ~>
    (~isSyncing /\ \A p \in Slots : pc[p] = "idle")

\* a pass that pushed a record has returned and the flag is down
C27_Witness ==
  /\ ~isSyncing
  /\ \A p \in Slots : pc[p] = "idle"
  /\ result = Returned(TRUE, Undef)
  /\ \E k \in DOMAIN store \cap LocalIds : store[k].sync_status = "synced"

\* C28: a pass whose pull phase failed (the fetch was rejected, or the merge of
\* the fetched records failed) returns a failure result; a success result is
\* returned only when the pull phase did not fail.
C28_PullFailureFailsPass ==
  [][\A p \in Slots :
       (Returns(p) /\ pc[p] \in {"merge", "finish"} /\ fetchError[p])
         => ~result'.success]_vars

\* the record stored under L overlaid by every field serverTask carries, with
\* local_id L, sync_status synced and updated_at of serverTask or the time
Overlaid(st, L, s, time) ==
  LET has == L \in DOMAIN st
  IN [local_id |-> L,
      id |-> IF s.id # Undef \/ ~has THEN s.id ELSE st[L].id,
      title |-> IF s.title # Undef \/ ~has THEN s.title ELSE st[L].title,
      description |-> IF s.description # Undef \/ ~has
                      THEN s.description ELSE st[L].description,
      assigned_to |-> IF s.assigned_to # Undef \/ ~has
                      THEN s.assigned_to ELSE st[L].assigned_to,
      status |-> IF s.status # Undef \/ ~has THEN s.status ELSE st[L].status,
      is_deleted |-> s.is_deleted,
      created_at |-> IF s.created_at # NoTime \/ ~has
                     THEN s.created_at ELSE st[L].created_at,
      updated_at |-> IF s.updated_at # NoTime THEN s.updated_at ELSE time,
      sync_status |-> "synced"]

\* C29 as stated: updateTaskAfterSync(L, serverTask), when serverTask's id is
\* not stored under another local_id, leaves under L exactly the previous
\* record overlaid by serverTask's fields, and changes no other record.
C29_ReconcileOverlays ==
  [][\A L \in StoreKeys, s \in ReturnedTasks :
       (CallUpdateTaskAfterSync(L, s) /\ ~SyncConflict(store, L, s))
         => /\ DOMAIN store' = DOMAIN store \cup {L}
            /\ store'[L] = Overlaid(store, L, s, now)
            /\ \A k \in DOMAIN store \ {L} : store'[k] = store[k]]_vars

\* C29: updateTaskAfterSync(L, serverTask), when serverTask's id is not stored
\* under another local_id, leaves under L the previous record overlaid by
\* serverTask's fields, with local_id L, sync_status synced, updated_at of
\* serverTask or the current time, and a created_at that is never absent: when
\* neither serverTask nor the previous record has one it is the updated_at
\* just set; no other record changes.
C29_ReconcileMerges ==
  [][\A L \in StoreKeys, s \in ReturnedTasks :
       (CallUpdateTaskAfterSync(L, s) /\ ~SyncConflict(store, L, s))
         => /\ DOMAIN store' = DOMAIN store \cup {L}
            /\ store'[L] =
                 [Overlaid(store, L, s, now) EXCEPT
                    !.created_at = IF @ # NoTime THEN @ ELSE store'[L].updated_at]
            /\ \A k \in DOMAIN store \ {L} : store'[k] = store[k]]_vars

\* a stored pending record was reconciled with a server task that changed its
\* status and carried no timestamps: created_at is the record's, updated_at
\* the time of the call
C29_Witness ==
  /\ userOps = 1
  /\ \E L \in DOMAIN store :
       /\ store[L].sync_status = "synced"
       /\ store[L].id # Undef
       /\ store[L].status = "completed"
       /\ store[L].created_at = 1
       /\ store[L].updated_at = now

\* the tasks saveTask is given: with or without identity, timestamps and
\* sync_status
StampInputs ==
  [local_id : {Undef} \cup CallLocalIds, id : {Undef} \cup CallServerIds,
   title : Titles, description : {Null}, assigned_to : {Null},
   status : CreateStatuses, is_deleted : {FALSE}, created_at : {NoTime, 1},
   updated_at : {NoTime, 1}, sync_status : {Undef} \cup SyncStatuses]

\* the sync_status saveTask leaves on a task
StampedStatus(T) ==
  IF T.id = Undef THEN "pending_create"
  ELSE IF T.sync_status = Undef THEN "synced" ELSE T.sync_status

\* C30: on every store and for every task T, the record saveTask(T) stores
\* has sync_status pending_create when T has no id, whatever sync_status T
\* carries, and otherwise the sync_status of T, or synced when T has none; its
\* updated_at is the time of the save and its created_at is set. The same
\* holds of the record each put of saveTask leaves in the store.
C30_SaveStamps ==
  /\ [](\A T \in StampInputs :
          LET rec == saveTaskRecord(store, T, LocalId(nextLocal), now)
          IN /\ rec.sync_status = StampedStatus(T)
             /\ rec.updated_at = now
             /\ rec.created_at # NoTime
             /\ T.created_at # NoTime => rec.created_at = T.created_at)
  /\ [][\A T \in TaskInputs :
          (CallSaveTask(T) /\ T.id = Undef) =>
            LET k == IF T.local_id = Undef THEN LocalId(nextLocal) ELSE T.local_id
            IN /\ k \in DOMAIN store'
               /\ store'[k].sync_status = "pending_create"
               /\ store'[k].updated_at = now
               /\ store'[k].created_at # NoTime]_vars
  /\ [][\A i \in DOMAIN saving :
          (PutSaveTask(i) /\ PutOk(store, SaveStamp(saving[i].task, now))) =>
            LET T == saving[i].task
            IN /\ T.local_id \in DOMAIN store'
               /\ store'[T.local_id].sync_status = StampedStatus(T)
               /\ store'[T.local_id].updated_at = now
               /\ store'[T.local_id].created_at # NoTime]_vars

\* a task without id that carried synced was saved as pending_create, and a
\* task with an id that carried pending_update was saved as pending_update
C30_Witness ==
  /\ saving = <<>>
  /\ \E k \in DOMAIN store :
       /\ store[k].id = Undef
       /\ store[k].sync_status = "pending_create"
       /\ store[k].created_at = now
       /\ store[k].updated_at = now
  /\ \E k \in DOMAIN store :
       /\ store[k].id # Undef
       /\ store[k].sync_status = "pending_update"
       /\ store[k].updated_at = now

\* the server id of the record stored under a key, if any
StoredId(st, k) == IF k \in DOMAIN st THEN st[k].id ELSE Undef

\* C31: an offline edit of a record stores it as pending_update when the
\* record has a server id and as pending_create when it has none; an offline
\* delete stores it as pending_delete with is_deleted when it has a server id
\* and removes it when it has none (for a task the component holds with a
\* server id, this is what the put of its saveTask stores); only a reconcile
\* after a push, a merge of fetched tasks and the initial population from the
\* server leave a record synced that was not.
C31_LocalMutationStatus ==
  /\ [][\A task \in view, newStatus \in TaskStatuses :
          (SaveUpdateOffline(task, newStatus) /\ task.id = Undef)
            => store'[task.local_id].sync_status =
                 (IF StoredId(store, task.local_id) # Undef
                  THEN "pending_update" ELSE "pending_create")]_vars
  /\ [][\A task \in view :
          (MarkForOfflineDelete(task) /\ task.id = Undef)
            => IF StoredId(store, task.local_id) # Undef
               THEN /\ task.local_id \in DOMAIN store'
                    /\ store'[task.local_id].sync_status = "pending_delete"
                    /\ store'[task.local_id].is_deleted
               ELSE task.local_id \notin DOMAIN store']_vars
  /\ [][(CompleteSave /\ store' # store)
          => LET t == saving[1].task
             IN /\ t.local_id \in DOMAIN store'
                /\ store'[t.local_id].id = t.id /\ t.id # Undef
                /\ store'[t.local_id].is_deleted = t.is_deleted
                /\ store'[t.local_id].sync_status =
                     (IF t.is_deleted THEN "pending_delete" ELSE "pending_update")]_vars
  /\ [][(\E k \in DOMAIN store' :
           /\ store'[k].sync_status = "synced"
           /\ (k \notin DOMAIN store \/ store[k].sync_status # "synced"))
          => \/ \E p \in Slots : Reconcile(p) \/ Merge(p)
             \/ InitPopulate]_vars

\* C32: when the soft delete of a pending_delete record has succeeded on the
\* server and updateTaskAfterSync has stored the result, the record is still
\* stored under its local_id, with is_deleted and sync_status synced, and
\* neither getAllTasks nor getPendingChanges returns it.
C32_TombstoneKeptAndHidden ==
  [][\A p \in Slots :
       (Reconcile(p) /\ gwLog'[p] # gwLog[p]
          /\ gwLog[p][Len(gwLog[p])].call.op = "softDeleteTask")
         => LET k == Head(pendingTasks[p]).local_id
            IN /\ k \in DOMAIN store'
               /\ getTaskByLocalId(store', k).is_deleted
               /\ getTaskByLocalId(store', k).sync_status = "synced"
               /\ getTaskByLocalId(store', k) \notin getAllTasks(store')
               /\ getTaskByLocalId(store', k) \notin Range(getPendingChanges(store'))]_vars

\* a record the user deleted has been soft-deleted on the server and
\* reconciled: it is stored as a synced tombstone while the list is empty
C32_Witness ==
  \E p \in Slots, k \in DOMAIN store :
    /\ gwLog[p] # <<>>
    /\ gwLog[p][Len(gwLog[p])].call.op = "softDeleteTask"
    /\ gwLog[p][Len(gwLog[p])].reconciled
    /\ gwLog[p][Len(gwLog[p])].task.local_id = k
    /\ store[k].is_deleted
    /\ store[k].sync_status = "synced"
    /\ getAllTasks(store) = {}
    /\ getPendingChanges(store) = <<>>

\* C33: a status the user saved for a record after the pass read it and
\* before updateTaskAfterSync runs for it is not lost by that call: the
\* record still carries it with a pending sync_status, or the server's row
\* has it.
C33_InFlightEditKept ==
  [][\A p \in Slots :
       (Reconcile(p) /\ gwLog'[p] # gwLog[p]) =>
         LET read == Head(pendingTasks[p])
             k == read.local_id
         IN (/\ k \in DOMAIN store
             /\ store[k].status # read.status
             /\ store[k].sync_status \in PendingStatuses)
              => \/ /\ k \in DOMAIN store'
                    /\ store'[k].status = store[k].status
                    /\ store'[k].sync_status \in PendingStatuses
                 \/ remote[syncedTask[p].id].status = store[k].status]_vars

\* C34: the merge of the fetched tasks leaves every record alone whose
\* sync_status is pending when the merge runs and whose server id is among the
\* fetched tasks: it keeps its field values and its pending sync_status.
C34_PullKeepsPendingRecords ==
  [][\A p \in Slots :
       Merge(p) =>
         \A k \in DOMAIN store :
           (/\ store[k].sync_status \in PendingStatuses
            /\ store[k].id \in IdsOf(serverUpdates[p]))
             => (k \in DOMAIN store' /\ store'[k] = store[k])]_vars

\* C35: whenever the watermark is advanced to W, every row of the remote
\* table with updated_at <= W is reflected in the store: a record with the
\* id of the row is stored, at least as recent as the row. So no later pass
\* that fetches the rows after W misses a row.
C35_WatermarkSkipsNothing ==
  [][lastSync' # lastSync =>
       \A i \in DOMAIN remote :
         remote[i].updated_at <= lastSync' =>
           /\ HasServerId(store', i)
           /\ GetFromIndex(store', i).updated_at >= remote[i].updated_at]_vars

\* C36: a record created locally causes at most one createTask that succeeds,
\* over all passes. Rows are inserted by createTask only, so while the user
\* has done nothing but create tasks, the remote table holds at most one row
\* for each of them besides the rows it started with.
C36_OneCreatePerRecord ==
  userOps = nextLocal - 1 =>
    \E rem \in InitialRemotes :
      Cardinality(DOMAIN remote) <= Cardinality(DOMAIN rem) + (nextLocal - 1)

\* C37: once the record stored under a local_id has a server id, no step
\* takes the server id away or replaces it by another, whether the step is an
\* edit or a delete of the user or a step of a pass; a record that is removed
\* is not considered.
C37_ServerIdIsStable ==
  [][\A k \in DOMAIN store \cap DOMAIN store' :
       store[k].id # Undef => store'[k].id = store[k].id]_vars

\* C38: every stored record that is pending_update or pending_delete has a
\* server id and every record that is pending_create has none, so that
\* syncPendingTaskWithServer finds a gateway operation for every pending
\* record.
C38_PendingStatusMatchesServerId ==
  \A k \in DOMAIN store :
    /\ store[k].sync_status \in {"pending_update", "pending_delete"}
         => store[k].id # Undef
    /\ store[k].sync_status = "pending_create" => store[k].id = Undef
    /\ store[k].sync_status \in PendingStatuses => GatewayCall(store[k]).op # "none"

\* the store holds a record to create without server id next to a record
\* with a server id that the user edited or deleted
C38_Witness ==
  /\ saving = <<>>
  /\ \E k \in DOMAIN store :
       store[k].sync_status = "pending_create" /\ store[k].id = Undef
  /\ \E k \in DOMAIN store :
       store[k].sync_status \in {"pending_update", "pending_delete"}
         /\ store[k].id # Undef

\* C39: when a pass returns in which every gateway call and every storage
\* call succeeded and with which no local mutation interleaved, no change is
\* pending: getPendingChanges is empty and every record the pass read as
\* pending is stored with sync_status synced and the server id of its row.
C39_CleanPassLeavesNothingPending ==
  [][\A p \in Slots :
       (/\ Returns(p) /\ quiet[p] /\ result'.success /\ ~fetchError[p]
        /\ Len(gwLog[p]) = Len(pendingRead[p])
        /\ \A i \in DOMAIN gwLog[p] : gwLog[p][i].ok /\ gwLog[p][i].reconciled)
         => /\ getPendingChanges(store') = <<>>
            /\ \A i \in DOMAIN gwLog[p] :
                 \E k \in DOMAIN store' :
                   /\ store'[k].id = gwLog[p][i].serverId
                   /\ store'[k].sync_status = "synced"]_vars

\* a pass that read two pending records has pushed and reconciled both and
\* fetched without error, no local mutation having interleaved: it is about
\* to return and nothing is pending
C39_Witness ==
  \E p \in Slots :
    /\ pc[p] = "finish"
    /\ quiet[p]
    /\ ~fetchError[p]
    /\ Len(pendingRead[p]) = 2
    /\ Len(gwLog[p]) = 2
    /\ \A i \in DOMAIN gwLog[p] : gwLog[p][i].ok /\ gwLog[p][i].reconciled
    /\ getPendingChanges(store) = <<>>

\* C40: a never-synced record that the user removed from the store while
\* its create was in flight stays removed: the reconciliation of that create
\* leaves no record for it in getAllTasks, neither under its local_id nor
\* under the server id the create returned.
C40_DeletedRecordStaysDeleted ==
  [][\A p \in Slots :
       (/\ Reconcile(p) /\ gwLog'[p] # gwLog[p]
        /\ gwLog[p][Len(gwLog[p])].call.op = "createTask"
        /\ Head(pendingTasks[p]).local_id \notin DOMAIN store)
         => \A t \in getAllTasks(store') :
              /\ t.local_id # Head(pendingTasks[p]).local_id
              /\ t.id # syncedTask[p].id]_vars
====
